---- MODULE Spec2Model ----
(***************************************************************************)
(* Model of the two automation scripts of the repository:                  *)
(*   env/netbsd-amd64/mkvm.py         provisions a NetBSD VM through anita *)
(*   recipes/recipes/tricium_simple.py  runs Tricium analyzers on a change *)
(* The scripts share no state; each has its own specification (SpecMkvm,   *)
(* SpecRecipe) over the variables below, the other script staying idle.    *)
(***************************************************************************)
EXTENDS Naturals, Integers, Sequences, FiniteSets, TLC

VARIABLES
    \* ---- mkvm.py
    arch,            \* sys.argv[1]
    release,         \* sys.argv[2]
    pc,              \* position of the script
    i,               \* 1-based index of the loop "for cmd in commands"
    calls,           \* names of the anita calls made so far, in order
    sent,            \* shell commands handed to the guest, in order
    exit_status,     \* values returned by anita.shell_cmd (discarded by the script)
    halt_failed,     \* a.halt() raised and the except clause caught it
    uncaught,        \* "none", or the call whose exception left the script
    \* ---- tricium_simple.py
    gerrit_change,   \* api.tryserver.gerrit_change: host, project, change, patchset
    exists,          \* paths registered with api.path.exists
    rpc,             \* position of RunSteps
    steps,           \* external steps run so far: name, args, outcome
    commit_message,  \* local of RunSteps
    affected_files,  \* local of RunSteps
    exception,       \* "none", or the exception that left RunSteps
    status           \* overall status of the build

mkvmVars == <<arch, release, pc, i, calls, sent, exit_status, halt_failed, uncaught>>
recipeVars == <<gerrit_change, exists, rpc, steps, commit_message, affected_files,
                exception, status>>
vars == <<mkvmVars, recipeVars>>

(***************************************************************************)
(* Bounds of the model.                                                    *)
(***************************************************************************)
MaxChange == 101
MaxPatchset == 2
MaxFiles == 2

(***************************************************************************)
(*                              mkvm.py                                    *)
(***************************************************************************)
Archs == {"amd64", "i386"}
Releases == {"9.0"}

\* What anita.shell_cmd can return: the exit status of the guest command.
ExitStatus == {0, 1}

\* A shell command that does not depend on the arguments of the script.
Cmd(words) == [words |-> words, arch |-> "", release |-> ""]

\* "env PKG_PATH=http://ftp.netbsd.org/.../%s/%s/All/ pkg_add ..." % (arch, release)
PkgAdd(a, r, pkgs) == [words |-> <<"env", "PKG_PATH", "pkg_add">> \o pkgs,
                       arch |-> a, release |-> r]

commands_sshd_first(a, r) ==
    << Cmd(<<"cat", ">>", "/etc/rc.local">>),
       Cmd(<<"cat", ">", "/etc/ifconfig.vioif0">>),
       Cmd(<<"dhcpcd">>),
       PkgAdd(a, r, <<"bash", "curl">>),
       PkgAdd(a, r, <<"git-base">>),
       PkgAdd(a, r, <<"mozilla-rootcerts", "mozilla-rootcerts-openssl", "go14">>),
       PkgAdd(a, r, <<"emacs25-nox11", "vim", "screen">>),
       Cmd(<<"echo", "sshd=yes", ">>", "/etc/rc.conf">>),
       PkgAdd(a, r, <<"clang", "cmake">>),
       Cmd(<<"ed", "/etc/fstab">>),
       Cmd(<<"echo", "PermitRootLogin", "without-password", ">>", "/etc/ssh/sshd_config">>),
       Cmd(<<"/etc/rc.d/sshd", "restart">>),
       Cmd(<<"sync;", "shutdown", "-hp", "now">>) >>

commands(a, r) ==
    << Cmd(<<"cat", ">>", "/etc/rc.local">>),
       Cmd(<<"cat", ">", "/etc/ifconfig.vioif0">>),
       Cmd(<<"dhcpcd">>),
       PkgAdd(a, r, <<"bash", "curl">>),
       PkgAdd(a, r, <<"git-base">>),
       PkgAdd(a, r, <<"mozilla-rootcerts", "mozilla-rootcerts-openssl", "go14">>),
       PkgAdd(a, r, <<"emacs25-nox11", "vim", "screen">>),
       PkgAdd(a, r, <<"clang", "cmake">>),
       Cmd(<<"ed", "/etc/fstab">>),
       Cmd(<<"echo", "sshd=yes", ">>", "/etc/rc.conf">>),
       Cmd(<<"echo", "PermitRootLogin", "without-password", ">>", "/etc/ssh/sshd_config">>),
       Cmd(<<"/etc/rc.d/sshd", "restart">>),
       Cmd(<<"sync;", "shutdown", "-hp", "now">>) >>

\* The loop variable after one iteration of "for cmd in commands".
LoopNext_skip(k) == k + 2

LoopNext(k) == k + 1

MkvmIdle ==
    /\ arch = "" /\ release = "" /\ pc = "idle" /\ i = 1
    /\ calls = <<>> /\ sent = <<>> /\ exit_status = <<>>
    /\ halt_failed = FALSE /\ uncaught = "none"

\* The script has read its arguments and built the Anita object (lines 9-64).
MkvmInit ==
    /\ arch \in Archs
    /\ release \in Releases
    /\ pc = "boot"
    /\ i = 1
    /\ calls = <<>>
    /\ sent = <<>>
    /\ exit_status = <<>>
    /\ halt_failed = FALSE
    /\ uncaught = "none"

\* child = a.boot()
Boot ==
    /\ pc = "boot"
    /\ calls' = Append(calls, "boot")
    /\ \/ /\ pc' = "login"
          /\ UNCHANGED uncaught
       \/ /\ pc' = "raised"
          /\ uncaught' = "boot"
    /\ UNCHANGED <<arch, release, i, sent, exit_status, halt_failed>>
    /\ UNCHANGED recipeVars

\* anita.login(child)
Login ==
    /\ pc = "login"
    /\ calls' = Append(calls, "login")
    /\ \/ /\ pc' = "cmds"
          /\ UNCHANGED uncaught
       \/ /\ pc' = "raised"
          /\ uncaught' = "login"
    /\ UNCHANGED <<arch, release, i, sent, exit_status, halt_failed>>
    /\ UNCHANGED recipeVars

\* anita.shell_cmd(child, cmd, 3600) is entered: the command goes to the guest.
ShellCmdCall ==
    /\ pc = "cmds"
    /\ i <= Len(commands(arch, release))
    /\ calls' = Append(calls, "shell_cmd")
    /\ sent' = Append(sent, commands(arch, release)[i])
    /\ pc' = "in_shell_cmd"
    /\ UNCHANGED <<arch, release, i, exit_status, halt_failed, uncaught>>
    /\ UNCHANGED recipeVars

\* anita.shell_cmd returns the guest's exit status; the script discards it and
\* goes on with the next command, or leaves the loop after the last one.
ShellCmdReturn ==
    /\ pc = "in_shell_cmd"
    /\ \E s \in ExitStatus : exit_status' = Append(exit_status, s)
    /\ i' = LoopNext(i)
    /\ pc' = IF i' > Len(commands(arch, release)) THEN "halt" ELSE "cmds"
    /\ UNCHANGED <<arch, release, calls, sent, halt_failed, uncaught>>
    /\ UNCHANGED recipeVars

ShellCmdRaise_swallowed ==
    /\ pc = "in_shell_cmd"
    /\ uncaught' = "shell_cmd"
    /\ i' = LoopNext(i)
    /\ pc' = IF i' > Len(commands(arch, release)) THEN "halt" ELSE "cmds"
    /\ UNCHANGED <<arch, release, calls, sent, exit_status, halt_failed>>
    /\ UNCHANGED recipeVars

\* anita.shell_cmd raises (a timeout after 3600 s, the console closing): nothing
\* in the loop catches it.
ShellCmdRaise ==
    /\ pc = "in_shell_cmd"
    /\ uncaught' = "shell_cmd"
    /\ pc' = "raised"
    /\ UNCHANGED <<arch, release, i, calls, sent, exit_status, halt_failed>>
    /\ UNCHANGED recipeVars

\* try: a.halt()   -- halt returns
HaltReturn ==
    /\ pc = "halt"
    /\ calls' = Append(calls, "halt")
    /\ pc' = "done"
    /\ UNCHANGED <<arch, release, i, sent, exit_status, halt_failed, uncaught>>
    /\ UNCHANGED recipeVars

HaltRaise_propagates ==
    /\ pc = "halt"
    /\ calls' = Append(calls, "halt")
    /\ halt_failed' = TRUE
    /\ uncaught' = "halt"
    /\ pc' = "raised"
    /\ UNCHANGED <<arch, release, i, sent, exit_status>>
    /\ UNCHANGED recipeVars

HaltRaise_retry ==
    /\ pc = "halt"
    /\ Len(calls) < Len(commands(arch, release)) + 4
    /\ calls' = Append(calls, "halt")
    /\ halt_failed' = TRUE
    /\ pc' = "halt"
    /\ UNCHANGED <<arch, release, i, sent, exit_status, uncaught>>
    /\ UNCHANGED recipeVars

\* try: a.halt()   -- halt raises;  except: pass
HaltRaise ==
    /\ pc = "halt"
    /\ calls' = Append(calls, "halt")
    /\ halt_failed' = TRUE
    /\ pc' = "done"
    /\ UNCHANGED <<arch, release, i, sent, exit_status, uncaught>>
    /\ UNCHANGED recipeVars

MkvmNext ==
    \/ Boot
    \/ Login
    \/ ShellCmdCall
    \/ ShellCmdReturn
    \/ ShellCmdRaise
    \/ HaltReturn
    \/ HaltRaise

RecipeIdle ==
    /\ gerrit_change = [host |-> "", project |-> "", change |-> 0, patchset |-> 0]
    /\ exists = {}
    /\ rpc = "idle"
    /\ steps = <<>>
    /\ commit_message = <<>>
    /\ affected_files = <<>>
    /\ exception = "none"
    /\ status = "RUNNING"

\* A run of mkvm.py: the recipe takes no part in it.
InitMkvm == MkvmInit /\ RecipeIdle

SpecMkvm == InitMkvm /\ [][MkvmNext]_vars

(***************************************************************************)
(*                         tricium_simple.py                               *)
(***************************************************************************)
TestChange == 86753

GerritHost == "go-review.googlesource.com"
Projects == {"go"}
Files == {"README.md", "go.mod", "main.go"}
Changes == (1..MaxChange) \cup {TestChange}
Patchsets == 1..MaxPatchset

\* Exceptions an external step can raise.
Errors == {"StepFailure", "InfraFailure"}

\* Sequences of distinct files, at most MaxFiles long: what the patch touches.
FileLists ==
    UNION {{fs \in [1..n -> Files] : \A a, b \in 1..n : a # b => fs[a] # fs[b]}
           : n \in 0..MaxFiles}

Digit(d) == <<"0", "1", "2", "3", "4", "5", "6", "7", "8", "9">>[d + 1]

\* "%d" % n, for n >= 0: the decimal digits of n, without padding.
RECURSIVE FormatD(_)
FormatD(n) == IF n < 10 THEN <<Digit(n)>>
              ELSE Append(FormatD(n \div 10), Digit(n % 10))

\* api.tryserver.gerrit_change_repo_project
project == gerrit_change.project

\* 'https://%s' % api.tryserver.gerrit_change.host
host_url == <<"https://", gerrit_change.host>>

\* api.path['start_dir'].join(project)
repo_path == <<"start_dir", project>>

\* 'https://%s/%s' % (host, project)
url == <<"https://", gerrit_change.host, "/", gerrit_change.project>>

\* "refs/changes/%d/%d/%d" % (change%100, change, patchset), as path components
ref == <<"refs", "changes", FormatD(gerrit_change.change % 100),
         FormatD(gerrit_change.change), FormatD(gerrit_change.patchset)>>

analyzers_by_patch ==
    IF affected_files = <<>> THEN <<"HTTPS_CHECK", "SPELLCHECKER">>
    ELSE <<"HTTPS_CHECK", "SPELLCHECKER", "INCLUSIVE_LANGUAGE_CHECK", "COPYRIGHT">>

analyzers == <<"HTTPS_CHECK", "SPELLCHECKER", "INCLUSIVE_LANGUAGE_CHECK", "COPYRIGHT">>

\* The description the review system holds for a patch set of a change.
Description(h, c, p) == [host |-> h, change |-> c, patchset |-> p]

\* An external step that ran and returned.
StepOk(name, args, result) ==
    steps' = Append(steps, [name |-> name, args |-> args, outcome |-> "ok",
                            result |-> result])

StepRaises_swallowed(name, args) ==
    /\ steps' = Append(steps, [name |-> name, args |-> args,
                               outcome |-> "StepFailure", result |-> <<>>])
    /\ exception' = "none"
    /\ status' = "SUCCESS"
    /\ rpc' = "done"

\* An external step that raised: RunSteps has no handler, the exception leaves it
\* and the build does not succeed.
StepRaises(name, args) ==
    \E e \in Errors :
        /\ steps' = Append(steps, [name |-> name, args |-> args, outcome |-> e,
                                   result |-> <<>>])
        /\ exception' = e
        /\ status' = "FAILURE"
        /\ rpc' = "raised"

\* api.test(..., api.buildbucket.try_build(...)) + api.path.exists(...): a try
\* build of a pending change, with some paths of the checkout existing.
RecipeInit ==
    /\ gerrit_change \in [host : {GerritHost}, project : Projects,
                          change : Changes, patchset : Patchsets]
    /\ exists \in SUBSET {<<"start_dir", pr, f>> : pr \in Projects, f \in Files}
    /\ rpc = "get_change_description"
    /\ steps = <<>>
    /\ commit_message = <<>>
    /\ affected_files = <<>>
    /\ exception = "none"
    /\ status = "RUNNING"

\* commit_message = api.gerrit.get_change_description(host_url, change, patchset)
GetChangeDescription ==
    /\ rpc = "get_change_description"
    /\ LET args == [host |-> host_url, change |-> gerrit_change.change,
                    patchset |-> gerrit_change.patchset]
       IN \/ /\ StepOk("gerrit.get_change_description", args,
                       Description(args.host, args.change, args.patchset))
             /\ commit_message' = Description(args.host, args.change, args.patchset)
             /\ rpc' = "checkout"
             /\ UNCHANGED <<exception, status>>
          \/ /\ StepRaises("gerrit.get_change_description", args)
             /\ UNCHANGED commit_message
    /\ UNCHANGED <<gerrit_change, exists, affected_files>>
    /\ UNCHANGED mkvmVars

\* api.git.checkout(url=url, ref=ref, dir_path=repo_path, submodules=False)
GitCheckout ==
    /\ rpc = "checkout"
    /\ LET args == [url |-> url, ref |-> ref, dir_path |-> repo_path,
                    submodules |-> FALSE]
       IN \/ /\ StepOk("git.checkout", args, <<>>)
             /\ rpc' = "get_files_affected_by_patch"
             /\ UNCHANGED <<exception, status>>
          \/ StepRaises("git.checkout", args)
    /\ UNCHANGED <<gerrit_change, exists, commit_message, affected_files>>
    /\ UNCHANGED mkvmVars

\* affected_files = api.tryserver.get_files_affected_by_patch(patch_root=project,
\*     report_files_via_property='affected_files')
GetFilesAffectedByPatch ==
    /\ rpc = "get_files_affected_by_patch"
    /\ LET args == [patch_root |-> project,
                    report_files_via_property |-> "affected_files"]
       IN \/ \E fs \in FileLists :
                /\ StepOk("tryserver.get_files_affected_by_patch", args, fs)
                /\ affected_files' = fs
                /\ rpc' = "run_legacy"
                /\ UNCHANGED <<exception, status>>
          \/ /\ StepRaises("tryserver.get_files_affected_by_patch", args)
             /\ UNCHANGED affected_files
    /\ UNCHANGED <<gerrit_change, exists, commit_message>>
    /\ UNCHANGED mkvmVars

Reverse(seq) == [k \in 1..Len(seq) |-> seq[Len(seq) + 1 - k]]

TriciumRunLegacy_fails ==
    /\ rpc = "run_legacy"
    /\ LET args == [analyzers |-> analyzers, input_base |-> repo_path,
                    affected_files |-> affected_files,
                    commit_message |-> commit_message]
       IN /\ StepOk("tricium.run_legacy", args, <<>>)
          /\ rpc' = "done"
          /\ status' = "FAILURE"
          /\ UNCHANGED exception
    /\ UNCHANGED <<gerrit_change, exists, commit_message, affected_files>>
    /\ UNCHANGED mkvmVars

TriciumRunLegacy_reordered ==
    /\ rpc = "run_legacy"
    /\ LET args == [analyzers |-> analyzers, input_base |-> repo_path,
                    affected_files |-> Reverse(affected_files),
                    commit_message |-> commit_message]
       IN \/ /\ StepOk("tricium.run_legacy", args, <<>>)
             /\ rpc' = "done"
             /\ status' = "SUCCESS"
             /\ UNCHANGED exception
          \/ StepRaises("tricium.run_legacy", args)
    /\ UNCHANGED <<gerrit_change, exists, commit_message, affected_files>>
    /\ UNCHANGED mkvmVars

\* api.tricium.run_legacy(analyzers, repo_path, affected_files, commit_message);
\* when it returns RunSteps returns, and the build succeeds.
TriciumRunLegacy ==
    /\ rpc = "run_legacy"
    /\ LET args == [analyzers |-> analyzers, input_base |-> repo_path,
                    affected_files |-> affected_files,
                    commit_message |-> commit_message]
       IN \/ /\ StepOk("tricium.run_legacy", args, <<>>)
             /\ rpc' = "done"
             /\ status' = "SUCCESS"
             /\ UNCHANGED exception
          \/ StepRaises("tricium.run_legacy", args)
    /\ UNCHANGED <<gerrit_change, exists, commit_message, affected_files>>
    /\ UNCHANGED mkvmVars

RecipeNext ==
    \/ GetChangeDescription
    \/ GitCheckout
    \/ GetFilesAffectedByPatch
    \/ TriciumRunLegacy

\* A run of the recipe: mkvm.py takes no part in it.
InitRecipe == RecipeInit /\ MkvmIdle

SpecRecipe == InitRecipe /\ [][RecipeNext]_vars

(***************************************************************************)
(* Properties of mkvm.py                                                   *)
(***************************************************************************)
Count(seq, x) == Cardinality({k \in 1..Len(seq) : seq[k] = x})

IsPkgAdd(cmd) == \E k \in 1..Len(cmd.words) : cmd.words[k] = "pkg_add"
SshdEnable == Cmd(<<"echo", "sshd=yes", ">>", "/etc/rc.conf">>)
SshdRestart == Cmd(<<"/etc/rc.d/sshd", "restart">>)
Shutdown == Cmd(<<"sync;", "shutdown", "-hp", "now">>)

\* C1: the commands sent to the guest are always a prefix of the commands list
\* (list order, nothing skipped, repeated or reordered), the whole list once the
\* loop is over; a command is sent only when every earlier shell_cmd call has
\* returned; and nothing is sent before boot and login have completed.
C1_CommandsInListOrder ==
    /\ Len(sent) <= Len(commands(arch, release))
    /\ \A k \in 1..Len(sent) : sent[k] = commands(arch, release)[k]
    /\ Len(exit_status) <= Len(sent)
    /\ Len(sent) <= Len(exit_status) + 1
    /\ pc = "cmds" => Len(sent) = Len(exit_status)
    /\ pc \in {"halt", "done"} => /\ sent = commands(arch, release)
                                  /\ Len(exit_status) = Len(sent)
    /\ sent # <<>> => /\ Len(calls) >= 3
                      /\ calls[1] = "boot"
                      /\ calls[2] = "login"
                      /\ uncaught \notin {"boot", "login"}
    /\ Count(calls, "shell_cmd") = Len(sent)

C1_Witness ==
    /\ pc = "done"
    /\ sent = commands(arch, release)
    /\ Len(exit_status) = Len(commands(arch, release))

\* C2: when a.halt() raises after every command of the list completed, the
\* script still ends normally: no exception leaves it and halt is not retried.
C2_HaltFailureSuppressed ==
    halt_failed =>
        /\ Len(exit_status) = Len(commands(arch, release))
        /\ pc = "done"
        /\ uncaught = "none"
        /\ Count(calls, "halt") = 1

C2_Witness ==
    /\ halt_failed
    /\ pc = "done"
    /\ Len(exit_status) = Len(commands(arch, release))

Terminated == pc \in {"done", "raised"}

BootBeforeHalt ==
    \A h \in 1..Len(calls) : calls[h] = "halt" =>
        \E b \in 1..(h - 1) : calls[b] = "boot"

\* C4 as stated: every terminated run, failed or not, has exactly one boot and
\* exactly one halt.
C4_Original ==
    Terminated =>
        /\ Count(calls, "boot") = 1
        /\ Count(calls, "halt") = 1
        /\ BootBeforeHalt

\* C4 as amended: boot and halt are never called twice; a run that ends normally
\* has exactly one boot and one halt, the halt after the boot; a run ended by an
\* exception of boot, login or a shell command has one boot and no halt.
C4_StartOnceHaltOnNormalEnd ==
    /\ Count(calls, "boot") <= 1
    /\ Count(calls, "halt") <= 1
    /\ BootBeforeHalt
    /\ pc = "done" => Count(calls, "boot") = 1 /\ Count(calls, "halt") = 1
    /\ pc = "raised" => Count(calls, "boot") = 1 /\ Count(calls, "halt") = 0

C4_Witness ==
    /\ pc = "done"
    /\ ~halt_failed
    /\ Count(calls, "boot") = 1
    /\ Count(calls, "halt") = 1

\* C8: when the SSH daemon is enabled or restarted, every pkg_add command of the
\* list has been sent earlier and has returned; the shutdown command is the last
\* command ever sent; and halt is called only after shutdown has returned.
C8_PkgBeforeSshdShutdownLast ==
    /\ \A j \in 1..Len(sent) :
          sent[j] \in {SshdEnable, SshdRestart} =>
              \A k \in 1..Len(commands(arch, release)) :
                  IsPkgAdd(commands(arch, release)[k]) =>
                      \E m \in 1..(j - 1) :
                          /\ sent[m] = commands(arch, release)[k]
                          /\ m <= Len(exit_status)
    /\ \A j \in 1..Len(sent) : sent[j] = Shutdown => j = Len(sent)
    /\ Count(calls, "halt") > 0 =>
          /\ sent # <<>>
          /\ sent[Len(sent)] = Shutdown
          /\ Len(exit_status) = Len(sent)
          /\ calls[Len(calls)] = "halt"

C8_Witness ==
    /\ Count(calls, "halt") = 1
    /\ Count(sent, SshdEnable) = 1
    /\ Count(sent, SshdRestart) = 1
    /\ Cardinality({k \in 1..Len(sent) : IsPkgAdd(sent[k])}) = 5
    /\ sent[Len(sent)] = Shutdown

(***************************************************************************)
(* Properties of tricium_simple.py                                         *)
(***************************************************************************)
StepOrder == <<"gerrit.get_change_description", "git.checkout",
               "tryserver.get_files_affected_by_patch", "tricium.run_legacy">>

StepsNamed(name) == SelectSeq(steps, LAMBDA st : st.name = name)

StepsInOrder ==
    /\ Len(steps) <= Len(StepOrder)
    /\ \A k \in 1..Len(steps) : steps[k].name = StepOrder[k]

AllStepsOk ==
    /\ Len(steps) = Len(StepOrder)
    /\ \A k \in 1..Len(steps) : steps[k].outcome = "ok"

RecipeTerminated == rpc \in {"done", "raised"}

\* The files of the patch are at least one, and all exist under the checkout.
PatchFilesExist ==
    /\ affected_files # <<>>
    /\ \A k \in 1..Len(affected_files) :
           <<"start_dir", project, affected_files[k]>> \in exists

\* C5: a run whose patch touches a non-empty list of existing files and whose
\* four external steps all returned has ended with status success; such a run
\* is never stuck before its end; and success is reported for no other run.
C5_SuccessWhenStepsSucceed ==
    /\ (AllStepsOk /\ PatchFilesExist) =>
           /\ rpc = "done"
           /\ status = "SUCCESS"
           /\ exception = "none"
    /\ ~RecipeTerminated => ENABLED RecipeNext
    /\ status = "SUCCESS" => AllStepsOk

C5_Witness ==
    /\ AllStepsOk
    /\ PatchFilesExist
    /\ Len(affected_files) = 2
    /\ gerrit_change.change = TestChange
    /\ gerrit_change.patchset = 1
    /\ status = "SUCCESS"

\* C6 as stated: the steps run in the fixed order and every run, however it
\* ends, has invoked the analyzers exactly once, with the fixed four analyzers.
C6_Original ==
    /\ StepsInOrder
    /\ RecipeTerminated =>
           /\ Len(StepsNamed("tricium.run_legacy")) = 1
           /\ StepsNamed("tricium.run_legacy")[1].args.analyzers =
                  <<"HTTPS_CHECK", "SPELLCHECKER", "INCLUSIVE_LANGUAGE_CHECK",
                    "COPYRIGHT">>

\* C6 as amended: the steps run in the fixed order; the analyzers are invoked at
\* most once, exactly once in a run whose three earlier steps returned and which
\* has ended, never in a run where an earlier step raised, and only after
\* checkout and file listing returned; every invocation passes the fixed four
\* analyzers.
C6_FixedOrderAnalyzersAtMostOnce ==
    /\ StepsInOrder
    /\ Len(StepsNamed("tricium.run_legacy")) <= 1
    /\ \A k \in 1..Len(steps) :
           steps[k].name = "tricium.run_legacy" =>
               /\ k = 4
               /\ steps[2].name = "git.checkout"
               /\ steps[2].outcome = "ok"
               /\ steps[3].name = "tryserver.get_files_affected_by_patch"
               /\ steps[3].outcome = "ok"
               /\ steps[k].args.analyzers =
                      <<"HTTPS_CHECK", "SPELLCHECKER", "INCLUSIVE_LANGUAGE_CHECK",
                        "COPYRIGHT">>
    /\ (RecipeTerminated /\ Len(steps) >= 3 /\ steps[3].outcome = "ok") =>
           Len(StepsNamed("tricium.run_legacy")) = 1
    /\ (\E k \in 1..Len(steps) : k <= 3 /\ steps[k].outcome # "ok") =>
           Len(StepsNamed("tricium.run_legacy")) = 0

C6_Witness ==
    /\ rpc = "done"
    /\ Len(StepsNamed("tricium.run_legacy")) = 1
    /\ affected_files = <<>>
    /\ steps[4].args.analyzers =
           <<"HTTPS_CHECK", "SPELLCHECKER", "INCLUSIVE_LANGUAGE_CHECK", "COPYRIGHT">>

\* C7: when an external step raises, the exception that leaves RunSteps is the
\* one the step raised, the raising step is the last step of the run, and the
\* run does not end with status success.
C7_StepFailurePropagates ==
    /\ \A k \in 1..Len(steps) :
           steps[k].outcome # "ok" =>
               /\ k = Len(steps)
               /\ exception = steps[k].outcome
               /\ rpc = "raised"
               /\ status # "SUCCESS"
    /\ exception # "none" =>
           /\ steps # <<>>
           /\ steps[Len(steps)].outcome = exception
    /\ rpc = "raised" => exception # "none"

C7_Witness ==
    /\ rpc = "raised"
    /\ Len(steps) = 3
    /\ steps[3].name = "tryserver.get_files_affected_by_patch"
    /\ steps[3].outcome = "InfraFailure"
    /\ exception = "InfraFailure"
    /\ status = "FAILURE"

\* The two-digit, zero-padded decimal form of n, for 0 <= n < 100.
Pad2(n) == <<Digit(n \div 10), Digit(n % 10)>>

\* The review system's ref of patch set p of change c: refs/changes/XX/c/p.
GerritChangeRef(c, p) == <<"refs", "changes", Pad2(c % 100), FormatD(c), FormatD(p)>>

\* C9: the ref RunSteps checks out is the review system's change ref of the
\* change and patch set of the build, with the two-digit zero-padded shard.
C9_CheckoutRefIsChangeRef ==
    \A k \in 1..Len(steps) :
        steps[k].name = "git.checkout" =>
            steps[k].args.ref =
                GerritChangeRef(gerrit_change.change, gerrit_change.patchset)

\* C10: the analyzers get the directory the change was checked out into, which
\* is start_dir joined with the patch root of the file listing; the file list
\* that the file listing returned, unchanged; and the description that was
\* fetched for the change and patch set of the checked-out ref.
C10_AnalyzerInputsFromEarlierSteps ==
    \A k \in 1..Len(steps) :
        steps[k].name = "tricium.run_legacy" =>
            /\ steps[k].args.input_base = steps[2].args.dir_path
            /\ steps[k].args.input_base = <<"start_dir", steps[3].args.patch_root>>
            /\ steps[k].args.affected_files = steps[3].result
            /\ steps[k].args.commit_message = steps[1].result
            /\ steps[1].result =
                   Description(steps[1].args.host, steps[1].args.change,
                               steps[1].args.patchset)
            /\ steps[2].args.ref[4] = FormatD(steps[1].args.change)
            /\ steps[2].args.ref[5] = FormatD(steps[1].args.patchset)
            /\ steps[1].args.change = gerrit_change.change
            /\ steps[1].args.patchset = gerrit_change.patchset

C10_Witness ==
    /\ Len(steps) = 4
    /\ steps[4].name = "tricium.run_legacy"
    /\ Len(steps[4].args.affected_files) = 2
    /\ steps[4].args.affected_files = steps[3].result
    /\ steps[4].args.commit_message.change = gerrit_change.change

====
